---- MODULE Spec2Model ----
(***************************************************************************)
(* A model of or4cl3_core: the Mythos integrity scorer                     *)
(* (BasicMythosIntegrityGuard::validate_historical_claim), called once at  *)
(* a time and from several threads, and the knowledge-graph gateway        *)
(* (Neo4jMythosGraph) of src/or4cl3_core/src/mythos_memory_core/mod.rs;    *)
(* the agent coordinator (AstraeaCoordinator) of                           *)
(* src/or4cl3_core/src/astraea/mod.rs; the recursive cognition engine      *)
(* (BasicRecursiveCognitionEngine) of                                      *)
(* src/or4cl3_core/src/recursive_cognition_engine/mod.rs; and the          *)
(* conversational interface (BasicConversationalInterface) of              *)
(* src/or4cl3_core/src/conversational_interface/mod.rs.                    *)
(*                                                                         *)
(* f32 values are modelled bit-exactly: a value is [m, e] and denotes      *)
(* m * 2^e, with 2^23 <= m < 2^24 for a non-zero value and m = 0 for 0.0.  *)
(* Every value the scorer computes is non-negative and normal, so sign,    *)
(* subnormals, infinities and NaN do not occur.  Every operation rounds    *)
(* to nearest, ties to even, as IEEE-754 binary32 does.                    *)
(* f64 values are modelled the same way, with the 53-bit significand kept  *)
(* as a sequence of bits, most significant first.                          *)
(* Text is modelled as a sequence of Unicode code points.                  *)
(***************************************************************************)
EXTENDS Integers, Sequences, FiniteSets, TLC

\* ------------------------------------------------------------------ f32

RECURSIVE Pow2(_)
Pow2(n) == IF n = 0 THEN 1 ELSE 2 * Pow2(n - 1)

MantBits == 24

MantMin == Pow2(MantBits - 1)

MantMax == Pow2(MantBits)

F32Zero == [m |-> 0, e |-> 0]

\* Round the mantissa m (already 24 bits wide) given the discarded part rem
\* out of 2*half, to nearest, ties to even; renormalise on carry-out.
F32Round(m, e, rem, half) ==
    LET up == (rem > half) \/ (rem = half /\ m % 2 = 1)
        m1 == IF up THEN m + 1 ELSE m
    IN  IF m1 = MantMax THEN [m |-> MantMin, e |-> e + 1] ELSE [m |-> m1, e |-> e]

RECURSIVE NormShift(_, _, _)
NormShift(n, d, k) ==
    IF (n * Pow2(k)) \div d >= MantMin THEN k ELSE NormShift(n, d, k + 1)

\* (n as f32) / (d as f32) for small naturals n and d, which are exact as
\* f32; the quotient is correctly rounded.  A decimal literal such as 0.95
\* is the correctly rounded value of 19/20.
F32DivInt(n, d) ==
    IF n = 0 THEN F32Zero
    ELSE LET k == NormShift(n, d, 0)
             q == (n * Pow2(k)) \div d
             r == (n * Pow2(k)) % d
         IN  F32Round(q, 0 - k, 2 * r, d)

F32Lt(a, b) ==
    IF a.m = 0 THEN b.m > 0
    ELSE IF b.m = 0 THEN FALSE
    ELSE (a.e < b.e) \/ (a.e = b.e /\ a.m < b.m)

\* f32::min and f32::max on non-NaN operands.
F32Min(a, b) == IF F32Lt(b, a) THEN b ELSE a

F32Max(a, b) == IF F32Lt(a, b) THEN b ELSE a

\* a + b for non-negative a, b: the smaller operand is aligned with three
\* extra bits (guard, round, sticky), the sum is normalised and rounded.
F32Add(a, b) ==
    IF a.m = 0 THEN b
    ELSE IF b.m = 0 THEN a
    ELSE LET hi == IF a.e >= b.e THEN a ELSE b
             lo == IF a.e >= b.e THEN b ELSE a
             d  == hi.e - lo.e
         IN  IF d >= MantBits + 2 THEN hi
             ELSE LET A      == hi.m * 8
                      Bq     == (lo.m * 8) \div Pow2(d)
                      sticky == (lo.m * 8) % Pow2(d) # 0
                      B      == IF sticky /\ Bq % 2 = 0 THEN Bq + 1 ELSE Bq
                      S      == A + B
                  IN  IF S >= MantMax * 8
                      THEN F32Round(S \div 16, hi.e + 1, S % 16, 8)
                      ELSE F32Round(S \div 8, hi.e, S % 8, 4)

LimbBase == Pow2(12)

\* a * b for non-negative a, b: the 48-bit product of the mantissas is
\* formed in 12-bit limbs as H * 2^24 + L, then normalised and rounded.
F32Mul(a, b) ==
    IF a.m = 0 \/ b.m = 0 THEN F32Zero
    ELSE LET limb  == LimbBase
             a1    == a.m \div limb
             a0    == a.m % limb
             b1    == b.m \div limb
             b0    == b.m % limb
             cross == a1 * b0 + a0 * b1
             Lfull == a0 * b0 + (cross % limb) * limb
             L     == Lfull % MantMax
             H     == a1 * b1 + (cross \div limb) + (Lfull \div MantMax)
         IN  IF H >= MantMin
             THEN F32Round(H, a.e + b.e + MantBits, L, MantMin)
             ELSE F32Round(2 * H + (L \div MantMin), a.e + b.e + MantBits - 1,
                           L % MantMin, MantMin \div 2)

\* ------------------------------------------------------------------ f64

\* An f64 value is [m, e]: m is the 53-bit significand as a sequence of
\* bits, most significant first with m[1] = 1, and the value is m * 2^e.
\* The values of the cognition engine are positive and normal.
F64MantBits == 53

\* The bit of weight 2^k of significand m.
F64BitAt(m, k) == m[F64MantBits - k]

\* m + 1 on the significand, renormalised when it carries out.
F64Increment(m, e) ==
    LET zeros == {i \in 1..F64MantBits : m[i] = 0}
    IN  IF zeros = {}
        THEN [m |-> [i \in 1..F64MantBits |-> IF i = 1 THEN 1 ELSE 0], e |-> e + 1]
        ELSE LET p == CHOOSE i \in zeros : \A j \in zeros : j <= i
             IN  [m |-> [i \in 1..F64MantBits |->
                           IF i < p THEN m[i] ELSE IF i = p THEN 1 ELSE 0],
                  e |-> e]

\* Round to nearest, ties to even: guard is the first discarded bit, sticky
\* tells whether any later discarded bit is set.
F64Round(m, e, guard, sticky) ==
    IF guard = 1 /\ (sticky \/ m[F64MantBits] = 1) THEN F64Increment(m, e)
    ELSE [m |-> m, e |-> e]

\* The binary digits of n / d after the leading 1, for d <= n < 2 * d:
\* the next `count` quotient bits of remainder r, followed by the remainder.
RECURSIVE QuotientBits(_, _, _)
QuotientBits(r, d, count) ==
    IF count = 0 THEN <<r>>
    ELSE LET bit == IF 2 * r >= d THEN 1 ELSE 0
         IN  <<bit>> \o QuotientBits(2 * r - bit * d, d, count - 1)

\* The s with d * 2^s <= n < d * 2^(s+1), searched upwards from s.
RECURSIVE Log2Ratio(_, _, _)
Log2Ratio(n, d, s) ==
    IF s < 0
    THEN (IF d <= n * Pow2(0 - s) THEN s ELSE Log2Ratio(n, d, s - 1))
    ELSE (IF n < d * Pow2(s + 1) THEN s ELSE Log2Ratio(n, d, s + 1))

\* (n / d) as an f64 literal for small positive integers n and d: the
\* quotient correctly rounded.  The literal 1.1 is the rounded value of
\* 11/10.
F64DivInt(n, d) ==
    LET s    == IF n >= d THEN Log2Ratio(n, d, 0) ELSE Log2Ratio(n, d, -1)
        n0   == IF s >= 0 THEN n ELSE n * Pow2(0 - s)
        d0   == IF s >= 0 THEN d * Pow2(s) ELSE d
        q    == QuotientBits(n0 - d0, d0, F64MantBits - 1)
        r    == q[F64MantBits]
        m    == [i \in 1..F64MantBits |-> IF i = 1 THEN 1 ELSE q[i - 1]]
    IN  F64Round(m, s - (F64MantBits - 1),
                 IF 2 * r >= d0 THEN 1 ELSE 0,
                 2 * r # d0 /\ r # 0)

F64Lt(a, b) ==
    \/ a.e < b.e
    \/ /\ a.e = b.e
       /\ \E i \in 1..F64MantBits :
             /\ a.m[i] < b.m[i]
             /\ \A j \in 1..(i - 1) : a.m[j] = b.m[j]

\* f64::min on non-NaN operands.
F64Min(a, b) == IF F64Lt(b, a) THEN b ELSE a

\* The bits of the product of two significands, least significant first:
\* column k holds the bit products of weight 2^k and the carry from below.
RECURSIVE ProductBits(_, _, _, _)
ProductBits(a, b, k, carry) ==
    IF k > 2 * F64MantBits - 1 THEN <<>>
    ELSE LET lo  == IF k > F64MantBits - 1 THEN k - (F64MantBits - 1) ELSE 0
             hi  == IF k > F64MantBits - 1 THEN F64MantBits - 1 ELSE k
             col == Cardinality({i \in lo..hi :
                                   F64BitAt(a, i) = 1 /\ F64BitAt(b, k - i) = 1})
             sum == col + carry
         IN  <<sum % 2>> \o ProductBits(a, b, k + 1, sum \div 2)

\* a * b: the 106-bit product of the significands, normalised and rounded.
F64Mul(a, b) ==
    LET P     == ProductBits(a.m, b.m, 0, 0)
        top   == IF P[2 * F64MantBits] = 1 THEN 2 * F64MantBits - 1
                 ELSE 2 * F64MantBits - 2
        m     == [i \in 1..F64MantBits |-> P[top - (i - 1) + 1]]
        guard == P[top - F64MantBits + 1]
        sticky == \E k \in 1..(top - F64MantBits) : P[k] = 1
    IN  F64Round(m, a.e + b.e + top - (F64MantBits - 1), guard, sticky)

\* ----------------------------------------------------------------- text

\* A String is a sequence of Unicode code points; String::len counts the
\* bytes of its UTF-8 encoding.
Utf8Len(cp) ==
    IF cp < 128 THEN 1 ELSE IF cp < 2048 THEN 2 ELSE IF cp < 65536 THEN 3 ELSE 4

\* The bytes of s[lo..hi], summed by halves.
RECURSIVE Utf8LenRange(_, _, _)
Utf8LenRange(s, lo, hi) ==
    IF lo > hi THEN 0
    ELSE IF lo = hi THEN Utf8Len(s[lo])
    ELSE LET mid == (lo + hi) \div 2
         IN  Utf8LenRange(s, lo, mid) + Utf8LenRange(s, mid + 1, hi)

StrLen(s) == Utf8LenRange(s, 1, Len(s))

\* char::to_lowercase for the code points below U+0100: A-Z and the Latin-1
\* capitals (U+00C0..U+00DE without the multiplication sign U+00D7) move up
\* by 32; every other code point used here has no lowercase mapping.
LowerChar(cp) ==
    IF (cp >= 65 /\ cp <= 90) \/ (cp >= 192 /\ cp <= 222 /\ cp # 215)
    THEN cp + 32 ELSE cp

ToLowercase(s) == [i \in 1..Len(s) |-> LowerChar(s[i])]

\* str::contains(pattern): pattern occurs as a contiguous substring.
Contains(s, pat) ==
    \E i \in 0..(Len(s) - Len(pat)) : \A j \in 1..Len(pat) : s[i + j] = pat[j]

\* "policy", "rights", "historical"
KwPolicy == <<112, 111, 108, 105, 99, 121>>

KwRights == <<114, 105, 103, 104, 116, 115>>

KwHistorical == <<104, 105, 115, 116, 111, 114, 105, 99, 97, 108>>

\* --------------------------------------------------------- Option, Result

None == [some |-> FALSE]

Some(x) == [some |-> TRUE, val |-> x]

Ok(x) == [ok |-> TRUE, val |-> x]

Err(msg) == [ok |-> FALSE, err |-> msg]

\* ------------------------------------------------------------ the inputs

\* The longest narrative of plain one-byte characters the model builds.
MaxNarrativeLen == 151

NarrativeLens == {0, 17, 49, 50, 149, 150, MaxNarrativeLen}

\* n times 'x' (1 byte each), e-acute U+00E9 (2 bytes each), U+4E2D (3 bytes
\* each); a space.
RepeatX(n) == [i \in 1..n |-> 120]

RepeatEAcute(n) == [i \in 1..n |-> 233]

RepeatCjk(n) == [i \in 1..n |-> 20013]

Sp == <<32>>

\* "Rights", "HISTORICAL", "Policy"
CapRights == <<82, 105, 103, 104, 116, 115>>

UpHistorical == <<72, 73, 83, 84, 79, 82, 73, 67, 65, 76>>

CapPolicy == <<80, 111, 108, 105, 99, 121>>

AsciiNarratives == {RepeatX(n) : n \in NarrativeLens}

MultiByteNarratives ==
    {RepeatEAcute(n) : n \in {25, 49, 75}} \cup {RepeatCjk(17)}

KeywordNarratives ==
    { KwPolicy,
      CapRights,
      UpHistorical,
      KwPolicy \o Sp \o KwPolicy,
      CapPolicy \o Sp \o KwRights,
      KwHistorical \o Sp \o KwPolicy \o Sp \o KwRights \o RepeatX(130),
      KwPolicy \o RepeatX(50),
      KwPolicy \o RepeatX(150),
      CapPolicy \o Sp \o KwRights \o RepeatX(50),
      CapPolicy \o Sp \o KwRights \o RepeatX(150),
      KwHistorical \o Sp \o KwPolicy \o Sp \o KwRights,
      KwHistorical \o Sp \o KwPolicy \o Sp \o KwRights \o RepeatX(40) }

Narratives == AsciiNarratives \cup MultiByteNarratives \cup KeywordNarratives

ClaimIds ==
    {"", "test_claim_001", "test_claim_002", "test_claim_003",
     "test_claim_004", "known_claim_001"}

Signatures == {None, Some(""), Some("dummy_sig")}

\* The fields the scorer never reads, as the tests and the mock set them,
\* and all empty (no tags).
Origins ==
    { [source_description |-> "Test source.", cultural_context_tags |-> <<"test">>,
       document_id |-> "doc_001", author_id |-> "author_001",
       timestamp |-> 1678886400],
      [source_description |-> "Mock Source",
       cultural_context_tags |-> <<"mock_context">>,
       document_id |-> "doc_mock_001", author_id |-> "author_mock",
       timestamp |-> 1678880000],
      [source_description |-> "", cultural_context_tags |-> <<>>,
       document_id |-> "", author_id |-> "", timestamp |-> 0] }

\* struct HistoricalClaim, with its ProvenanceData.
MkClaim(id, n, o, sig) ==
    [claim_id |-> id, narrative_content |-> n,
     source_description |-> o.source_description,
     cultural_context_tags |-> o.cultural_context_tags,
     provenance |-> [document_id |-> o.document_id, author_id |-> o.author_id,
                     timestamp |-> o.timestamp,
                     cryptographic_signature |-> sig]]

HistoricalClaims ==
    { MkClaim(id, n, o, sig) :
      id \in ClaimIds, n \in Narratives, o \in Origins, sig \in Signatures }

\* ----------------------------------------------------------- the scorer

KeyCrypto == "cryptographic_signature_valid"

KeyConsistency == "historical_consistency_score"

KeyExpert == "expert_consensus_score"

KeyCoherence == "narrative_coherence_score"

\* The decimal literals of the scorer, of type f32: each is the correctly
\* rounded value of the fraction it denotes.
Lit_0_05 == F32DivInt(1, 20)

Lit_0_1 == F32DivInt(1, 10)

Lit_0_2 == F32DivInt(1, 5)

Lit_0_25 == F32DivInt(1, 4)

Lit_0_3 == F32DivInt(3, 10)

Lit_0_4 == F32DivInt(2, 5)

Lit_0_5 == F32DivInt(1, 2)

Lit_0_6 == F32DivInt(3, 5)

Lit_0_75 == F32DivInt(3, 4)

Lit_0_95 == F32DivInt(19, 20)

Lit_1_0 == F32DivInt(1, 1)

\* DefaultHasher::new() is SipHash-1-3 with the fixed key (0, 0); str::hash
\* feeds it the UTF-8 bytes and then the byte 0xff.  finish() is a u64,
\* held here as four 16-bit limbs, most significant first.
DefaultHasherFinish(id) ==
    CASE id = ""                -> <<12352, 28325, 9157, 15855>>
      [] id = "test_claim_001"  -> <<21828, 54842, 19072, 6647>>
      [] id = "test_claim_002"  -> <<51496, 25486, 19973, 32066>>
      [] id = "test_claim_003"  -> <<11836, 56703, 19045, 20837>>
      [] id = "test_claim_004"  -> <<52077, 34874, 57512, 52344>>
      [] id = "known_claim_001" -> <<15582, 48968, 52732, 9566>>

\* hash_val % 4 on the u64: 2^16 is a multiple of 4, so only the lowest limb
\* decides.
U64Mod4(h) == h[4] % 4

\* Mutant: an empty signature string counted as no signature.
CryptoScoreNonEmpty(c) ==
    IF /\ c.provenance.cryptographic_signature.some
       /\ c.provenance.cryptographic_signature.val # ""
    THEN Lit_0_95 ELSE Lit_0_05

\* Mutant: the two signature scores exchanged.
CryptoScoreInverted(c) ==
    IF c.provenance.cryptographic_signature.some THEN Lit_0_05 ELSE Lit_0_95

\* 1. let crypto_score = if ...cryptographic_signature.is_some() {0.95} else {0.05}
CryptoScore(c) ==
    IF c.provenance.cryptographic_signature.some THEN Lit_0_95 ELSE Lit_0_05

\* 2. consistency_score from narrative_content.len()
ConsistencyScore(c) ==
    LET narrative_len == StrLen(c.narrative_content)
    IN  IF narrative_len >= 50 /\ narrative_len < 150
        THEN F32Add(Lit_0_5, Lit_0_1)
        ELSE IF narrative_len >= 150
        THEN F32Add(Lit_0_5, Lit_0_2)
        ELSE Lit_0_5

\* Mutant: the bonus divided by 100.0 instead of 10.0.
ExpertScoreDiv100(c) ==
    F32Add(Lit_0_4, F32DivInt(U64Mod4(DefaultHasherFinish(c.claim_id)), 100))

\* 3. expert_score_base from the hash of claim_id
ExpertScore(c) ==
    LET hash_val     == DefaultHasherFinish(c.claim_id)
        expert_bonus == F32DivInt(U64Mod4(hash_val), 10)
    IN  F32Add(Lit_0_4, expert_bonus)

\* Mutant: the keywords looked for in the narrative as written, not in its
\* lowercase form.
CoherenceScoreCaseSensitive(c) ==
    LET s0 == Lit_0_6
        s1 == IF Contains(c.narrative_content, KwPolicy) THEN F32Add(s0, Lit_0_05) ELSE s0
        s2 == IF Contains(c.narrative_content, KwRights) THEN F32Add(s1, Lit_0_05) ELSE s1
        s3 == IF Contains(c.narrative_content, KwHistorical) THEN F32Add(s2, Lit_0_05) ELSE s2
    IN  F32Min(s3, Lit_0_75)

\* 4. coherence_score from the keywords of the lowercased narrative
CoherenceScore(c) ==
    LET lower_narrative == ToLowercase(c.narrative_content)
        s0 == Lit_0_6
        s1 == IF Contains(lower_narrative, KwPolicy) THEN F32Add(s0, Lit_0_05) ELSE s0
        s2 == IF Contains(lower_narrative, KwRights) THEN F32Add(s1, Lit_0_05) ELSE s1
        s3 == IF Contains(lower_narrative, KwHistorical) THEN F32Add(s2, Lit_0_05) ELSE s2
    IN  F32Min(s3, Lit_0_75)

\* Mutant: the coherence score inserted under the consistency key, which it
\* overwrites.
ScoreBreakdownKeyReused(c) ==
    (KeyCrypto :> CryptoScore(c)) @@ (KeyExpert :> ExpertScore(c))
    @@ (KeyConsistency :> CoherenceScore(c))

\* score_breakdown after the four inserts
ScoreBreakdown(c) ==
    (KeyCrypto :> CryptoScore(c)) @@ (KeyConsistency :> ConsistencyScore(c))
    @@ (KeyExpert :> ExpertScore(c)) @@ (KeyCoherence :> CoherenceScore(c))

\* Mutant: the weights of the signature and the coherence entries exchanged.
WeightsSwapped ==
    (KeyCrypto :> Lit_0_2) @@ (KeyConsistency :> Lit_0_25)
    @@ (KeyExpert :> Lit_0_25) @@ (KeyCoherence :> Lit_0_3)

\* let weights: HashMap<String, f32> = [...]
Weights ==
    (KeyCrypto :> Lit_0_3) @@ (KeyConsistency :> Lit_0_25)
    @@ (KeyExpert :> Lit_0_25) @@ (KeyCoherence :> Lit_0_2)

\* The orders in which `for (key, score_value) in &score_breakdown` can
\* visit the entries: a HashMap built by HashMap::new() is keyed by a fresh
\* RandomState, so any order of its keys can occur.
IterationOrders(breakdown) ==
    { o \in [1..Cardinality(DOMAIN breakdown) -> DOMAIN breakdown] :
        \A i, j \in DOMAIN o : i # j => o[i] # o[j] }

\* Mutant: every score added with weight 1.0.
RECURSIVE WeightedSumUnweighted(_, _, _, _)
WeightedSumUnweighted(overall_score, breakdown, order, i) ==
    IF i > Len(order) THEN overall_score
    ELSE WeightedSumUnweighted(F32Add(overall_score, breakdown[order[i]]),
                               breakdown, order, i + 1)

\* The loop body, run over the entries in the order `order`.
RECURSIVE WeightedSum(_, _, _, _)
WeightedSum(overall_score, breakdown, order, i) ==
    IF i > Len(order) THEN overall_score
    ELSE LET key         == order[i]
             score_value == breakdown[key]
             term        == IF key \in DOMAIN Weights
                            THEN F32Mul(score_value, Weights[key])
                            ELSE F32Mul(score_value,
                                        F32DivInt(1, Cardinality(DOMAIN breakdown)))
         IN  WeightedSum(F32Add(overall_score, term), breakdown, order, i + 1)

\* overall_score.max(0.0).min(1.0)
ClampUnit(x) == F32Min(F32Max(x, F32Zero), Lit_1_0)

\* Mutant: the score added unscaled and the cap left out.
ConfidenceUncapped(overall_score) == F32Add(Lit_0_6, overall_score)

\* Mutant: the score scaled by 0.2 instead of 0.25.
ConfidenceScaledBy02(overall_score) ==
    F32Min(F32Add(Lit_0_6, F32Mul(overall_score, Lit_0_2)), Lit_0_95)

\* (0.6 + (overall_score * 0.25)).min(0.95)
Confidence(overall_score) ==
    F32Min(F32Add(Lit_0_6, F32Mul(overall_score, Lit_0_25)), Lit_0_95)

\* Mutant: the note records the document id instead of the claim id.
ValidationNoteDocumentId(c) ==
    <<"Validated claim (refined mock): ", c.provenance.document_id>>

\* format!("Validated claim (refined mock): {}", claim.claim_id)
ValidationNote(c) == <<"Validated claim (refined mock): ", c.claim_id>>

\* score_breakdown of every claim of the model, computed once.
score_breakdown_of == [c \in HistoricalClaims |-> ScoreBreakdown(c)]

\* Mutant: a claim with an empty narrative rejected.
ValidateRejectsEmpty(c, order) ==
    IF c.narrative_content = <<>> THEN Err("Empty narrative")
    ELSE LET overall_score ==
                 ClampUnit(WeightedSum(F32Zero, score_breakdown_of[c], order, 1))
         IN  Ok([overall_score    |-> overall_score,
                 confidence       |-> Confidence(overall_score),
                 score_breakdown  |-> score_breakdown_of[c],
                 validation_notes |-> <<ValidationNote(c)>>])

\* validate_historical_claim(&self, claim), with the order in which the
\* summing loop visits score_breakdown.
ValidateHistoricalClaim(c, order) ==
    LET score_breakdown == score_breakdown_of[c]
        overall_score   ==
            ClampUnit(WeightedSum(F32Zero, score_breakdown, order, 1))
    IN  Ok([overall_score    |-> overall_score,
            confidence       |-> Confidence(overall_score),
            score_breakdown  |-> score_breakdown,
            validation_notes |-> <<ValidationNote(c)>>])

\* ---------------------------------------------------------- the gateway

\* "A known narrative from the mock database."
MockNarrative ==
    <<65, 32, 107, 110, 111, 119, 110, 32, 110, 97, 114, 114, 97, 116, 105,
      118, 101, 32, 102, 114, 111, 109, 32, 116, 104, 101, 32, 109, 111, 99,
      107, 32, 100, 97, 116, 97, 98, 97, 115, 101, 46>>

\* The claim get_historical_claim_by_id builds for "known_claim_001".
MockKnownClaim ==
    [claim_id |-> "known_claim_001",
     narrative_content |-> MockNarrative,
     source_description |-> "Mock Source",
     cultural_context_tags |-> <<"mock_context">>,
     provenance |-> [document_id |-> "doc_mock_001", author_id |-> "author_mock",
                     timestamp |-> 1678880000,
                     cryptographic_signature |-> None]]

\* Neo4jMythosGraph::new(connection_string)
NewGraph(connection_string) == [_config |-> connection_string]

\* Mutant: the internal graph id returned instead of the claim's id.
AddReturnsNodeId(g, c) == Ok("node_0")

\* add_historical_claim(&self, claim): the value returned.  &self is not
\* changed.
AddHistoricalClaim(g, c) == Ok(c.claim_id)

\* Mutant: a missing key reported as an error.
GetErrOnMissing(g, claim_id) ==
    IF claim_id = "known_claim_001" THEN Ok(Some(MockKnownClaim))
    ELSE Err("Claim not found")

\* get_historical_claim_by_id(&self, claim_id)
GetHistoricalClaimById(g, claim_id) ==
    IF claim_id = "known_claim_001" THEN Ok(Some(MockKnownClaim)) ELSE Ok(None)

\* Mutant: an unknown source claim reported as an error.
GetRelatedErrOnUnknown(g, claim_id, relationship_type) ==
    IF claim_id = "known_claim_001" THEN Ok(<<>>) ELSE Err("Claim not found")

\* get_related_narratives(&self, claim_id, relationship_type)
GetRelatedNarratives(g, claim_id, relationship_type) == Ok(<<>>)

\* get_narratives_by_context_tag(&self, context_tag)
GetNarrativesByContextTag(g, context_tag) == Ok(<<>>)

\* The claims callers add, and the arguments they query with.
GatewayClaims ==
    { MkClaim("test_claim_001", RepeatX(17), o, Some("dummy_sig")) : o \in Origins }
    \cup { MkClaim("known_claim_001", KwPolicy, o, None) : o \in Origins }
    \cup { MockKnownClaim }

QueryIds == {"test_claim_001", "test_claim_002", "known_claim_001"}

RelationshipTypes == {"SUPPORTS", "CONTRADICTS"}

ContextTags == {"test", "mock_context", "some_context_tag"}

\* What every query answers on graph g.
Observe(g) ==
    [get     |-> [id \in QueryIds |-> GetHistoricalClaimById(g, id)],
     related |-> [q \in QueryIds \X RelationshipTypes |->
                    GetRelatedNarratives(g, q[1], q[2])],
     by_tag  |-> [t \in ContextTags |-> GetNarrativesByContextTag(g, t)]]

\* ------------------------------------------- concurrent calls of the scorer

\* The number of threads that call validate_historical_claim on one guard.
MaxThreads == 2

Threads == 1..MaxThreads

\* The claims the threads share (by & reference), by position.
SharedClaims ==
    << MkClaim("test_claim_004", KwPolicy,
               [source_description |-> "Test source.",
                cultural_context_tags |-> <<"test">>,
                document_id |-> "doc_001", author_id |-> "author_001",
                timestamp |-> 1678886400],
               Some("dummy_sig")),
       MockKnownClaim,
       MkClaim("test_claim_004", KwPolicy,
               [source_description |-> "", cultural_context_tags |-> <<>>,
                document_id |-> "", author_id |-> "", timestamp |-> 0],
               Some("")) >>

\* A thread that is not in a call.
NotCalling == [pc |-> "idle"]

\* The locals of a call after the four inserts and the weights, before the
\* loop: score_breakdown, the iterator over it (the keys still to visit, in
\* the order the map's RandomState gives) and overall_score = 0.0.
EnterValidate(k, order) ==
    [pc              |-> "summing",
     claim           |-> k,
     score_breakdown |-> ScoreBreakdown(SharedClaims[k]),
     iter            |-> order,
     overall_score   |-> F32Zero]

\* One pass of the loop body: the next entry's score times its weight is
\* added to overall_score.
LoopBody(call) ==
    LET key         == Head(call.iter)
        score_value == call.score_breakdown[key]
        weight      == IF key \in DOMAIN Weights THEN Weights[key]
                       ELSE F32DivInt(1, Cardinality(DOMAIN call.score_breakdown))
    IN  [call EXCEPT !.iter = Tail(call.iter),
                     !.overall_score = F32Add(call.overall_score,
                                              F32Mul(score_value, weight))]

\* After the loop: the clamp, the confidence, and the value returned.
LeaveValidate(call) ==
    LET overall_score == ClampUnit(call.overall_score)
    IN  [pc     |-> "done",
         claim  |-> call.claim,
         result |-> Ok([overall_score    |-> overall_score,
                        confidence       |-> Confidence(overall_score),
                        score_breakdown  |-> call.score_breakdown,
                        validation_notes |->
                            <<ValidationNote(SharedClaims[call.claim])>>])]

\* ------------------------------------------------- the Astraea coordinator

\* The value ().
Unit == <<>>

\* AstraeaCoordinator::new(): agents is an empty map.
NoAgents == <<>>

\* Mutant: a new agent starts "active".
RegisterAgentActive(ags, agent_id, capabilities) ==
    IF agent_id \in DOMAIN ags
    THEN [agents |-> ags,
          result |-> Err(<<"Agent ", agent_id, " already registered">>)]
    ELSE [agents |-> (agent_id :> [agent_id     |-> agent_id,
                                   status       |-> "active",
                                   current_task |-> None,
                                   capabilities |-> capabilities]) @@ ags,
          result |-> Ok(Unit)]

\* Mutant: a duplicate registration reports the error after it has replaced
\* the agent's state.
RegisterAgentReplaces(ags, agent_id, capabilities) ==
    LET state == [agent_id     |-> agent_id,
                  status       |-> "idle",
                  current_task |-> None,
                  capabilities |-> capabilities]
    IN  [agents |-> (agent_id :> state) @@ ags,
         result |-> IF agent_id \in DOMAIN ags
                    THEN Err(<<"Agent ", agent_id, " already registered">>)
                    ELSE Ok(Unit)]

\* register_agent(&mut self, agent_id, capabilities): the map afterwards and
\* the value returned.
RegisterAgent(ags, agent_id, capabilities) ==
    IF agent_id \in DOMAIN ags
    THEN [agents |-> ags,
          result |-> Err(<<"Agent ", agent_id, " already registered">>)]
    ELSE LET state == [agent_id     |-> agent_id,
                       status       |-> "idle",
                       current_task |-> None,
                       capabilities |-> capabilities]
         IN  [agents |-> (agent_id :> state) @@ ags,
              result |-> Ok(Unit)]

\* Mutant: an agent that already has a task keeps it.
AssignKeepsFirstTask(ags, agent_id, task_description) ==
    IF agent_id \notin DOMAIN ags
    THEN [agents |-> ags,
          result |-> Err(<<"Agent ", agent_id, " not found">>)]
    ELSE [agents |-> IF ags[agent_id].current_task.some THEN ags
                     ELSE [ags EXCEPT
                             ![agent_id].current_task = Some(task_description),
                             ![agent_id].status = "processing"],
          result |-> Ok(Unit)]

\* assign_task_to_agent(&mut self, agent_id, task_description)
AssignTaskToAgent(ags, agent_id, task_description) ==
    IF agent_id \notin DOMAIN ags
    THEN [agents |-> ags,
          result |-> Err(<<"Agent ", agent_id, " not found">>)]
    ELSE [agents |-> [ags EXCEPT ![agent_id].current_task = Some(task_description),
                                 ![agent_id].status = "processing"],
          result |-> Ok(Unit)]

\* Mutant: an agent that is processing a task is reported as not found.
GetAgentStateIdleOnly(ags, agent_id) ==
    IF agent_id \in DOMAIN ags /\ ags[agent_id].status = "idle"
    THEN Ok(ags[agent_id])
    ELSE Err(<<"Agent ", agent_id, " not found">>)

\* get_agent_state(&self, agent_id)
GetAgentState(ags, agent_id) ==
    IF agent_id \in DOMAIN ags THEN Ok(ags[agent_id])
    ELSE Err(<<"Agent ", agent_id, " not found">>)

\* broadcast_message_to_mesh(&self, _message)
BroadcastMessageToMesh(ags, message) == Ok(Unit)

\* The arguments callers pass.
AgentIds == {"agent1", "agent2"}

CapabilityLists == {<<>>, <<"data_analysis", "learning">>}

TaskDescriptions == {"process dataset X", "process dataset Y"}

Messages == {"Test message"}

\* ------------------------------------------- the recursive cognition engine

\* A String that format! builds is held as the sequence of its parts; the
\* String fields of Stimulus, CognitiveState and SystemResponse are such
\* sequences.  f64 literals are correctly rounded.
F64Lit_0_5 == F64DivInt(1, 2)

F64Lit_0_7 == F64DivInt(7, 10)

F64Lit_0_85 == F64DivInt(17, 20)

F64Lit_0_92 == F64DivInt(23, 25)

F64Lit_0_95 == F64DivInt(19, 20)

F64Lit_1_0 == F64DivInt(1, 1)

F64Lit_1_1 == F64DivInt(11, 10)

\* create_test_stimulus(), and a second stimulus.
Stimuli ==
    { [id |-> <<"test_stimulus_01">>,
       content |-> [kind |-> "Text", val |-> "This is a test stimulus."],
       metadata |-> <<>>],
      [id |-> <<"stimulus_for_", "query002">>,
       content |-> [kind |-> "Text", val |-> "Tell me a fact."],
       metadata |-> <<>>] }

Feedbacks ==
    { [feedback_id |-> "fb_01", target_stimulus_id |-> None,
       target_cognitive_state_id |-> None,
       feedback_content |-> "Looks right.", user_id |-> "user_01",
       timestamp |-> 1678886400] }

\* The longest history_log the model follows.
MaxHistory == 10

\* The most stage calls other than refine_cognition in one history.
MaxPlainSteps == 2

\* The entries of log that refine_cognition did not push, initialisation
\* aside.
PlainSteps(log) ==
    Len(log) - 1
    - Cardinality({i \in DOMAIN log : log[i] = <<"Cognition refined (mock)">>})

\* state.confidence_level.min(1.0) * 1.1
RefinedConfidence(confidence_level) ==
    F64Mul(F64Min(confidence_level, F64Lit_1_0), F64Lit_1_1)

\* The confidence levels that n refinements of level x pass through.
RECURSIVE ConfidenceLevels(_, _)
ConfidenceLevels(x, n) ==
    IF n = 0 THEN {x} ELSE {x} \cup ConfidenceLevels(RefinedConfidence(x), n - 1)

\* RefinedConfidence of every level a history of the model has, computed
\* once.
refined_confidence_of ==
    [x \in ConfidenceLevels(F64Lit_0_5, MaxHistory) |-> RefinedConfidence(x)]

\* initialize_state_from_stimulus(&self, stimulus)
InitializeStateFromStimulus(stimulus) ==
    Ok([state_id                |-> <<"state_for_stimulus_">> \o stimulus.id,
        stimulus_id             |-> stimulus.id,
        current_hypothesis      |->
            <<"Initial hypothesis for stimulus: ">> \o stimulus.id,
        confidence_level        |-> F64Lit_0_5,
        supporting_evidence_ids |-> <<>>,
        ethical_assessment      |-> None,
        history_log             |-> << <<"State initialized from stimulus">> >>])

\* assess_ethics(&self, state)
AssessEthics(state) ==
    Ok([state EXCEPT
          !.ethical_assessment =
              Some([pas_score             |-> F64Lit_0_92,
                    ethical_concerns      |-> <<>>,
                    suggested_mitigations |-> <<>>,
                    alignment_status      |-> "Aligned (Mock)"]),
          !.history_log = Append(@, <<"Ethical assessment performed (mock)">>)])

\* refine_cognition(&self, state)
RefineCognition(state) ==
    Ok([state EXCEPT
          !.current_hypothesis = @ \o <<" (refined)">>,
          !.confidence_level = refined_confidence_of[@],
          !.history_log = Append(@, <<"Cognition refined (mock)">>)])

\* validate_self(&self, state)
ValidateSelf(state) ==
    Ok([state EXCEPT
          !.history_log = Append(@, <<"Self-validation performed (mock)">>)])

\* incorporate_feedback(&self, state, feedback)
IncorporateFeedback(state, feedback) ==
    Ok([state EXCEPT
          !.current_hypothesis =
              @ \o <<" (feedback incorporated: ", feedback.feedback_content, ")">>,
          !.history_log =
              Append(@, <<"Human feedback '", feedback.feedback_id,
                          "' integrated (mock)">>)])

\* Mutant: the cognition refined before the ethics are assessed.
ExecuteFullCycleRefineFirst(stimulus) ==
    LET r0 == InitializeStateFromStimulus(stimulus)
        r1 == RefineCognition(r0.val)
        r2 == AssessEthics(r1.val)
    IN  ValidateSelf(r2.val)

\* execute_full_cycle(&self, stimulus): each stage's Err is returned by `?`.
ExecuteFullCycle(stimulus) ==
    LET r0 == InitializeStateFromStimulus(stimulus)
    IN  IF ~r0.ok THEN r0
        ELSE LET r1 == AssessEthics(r0.val)
             IN  IF ~r1.ok THEN r1
                 ELSE LET r2 == RefineCognition(r1.val)
                      IN  IF ~r2.ok THEN r2
                          ELSE LET r3 == ValidateSelf(r2.val)
                               IN  IF ~r3.ok THEN r3 ELSE Ok(r3.val)

\* ------------------------------------------ the conversational interface

\* usize::to_string: the decimal digits.
RECURSIVE ToDecimalString(_)
ToDecimalString(n) ==
    LET digit == <<"0", "1", "2", "3", "4", "5", "6", "7", "8", "9">>[(n % 10) + 1]
    IN  IF n < 10 THEN <<digit>> ELSE ToDecimalString(n \div 10) \o <<digit>>

\* [String]::join(sep)
RECURSIVE Join(_, _)
Join(strs, sep) ==
    IF strs = <<>> THEN <<>>
    ELSE IF Len(strs) = 1 THEN <<strs[1]>>
    ELSE <<strs[1], sep>> \o Join(Tail(strs), sep)

\* Mutant: the reflection carries no pas score.
MapWithoutPasScore(cognitive_state, query) ==
    [session_id            |-> query.session_id,
     response_to_query_id  |-> query.query_id,
     response_id           |-> <<"response_to_", query.query_id>>,
     text_content          |-> cognitive_state.current_hypothesis,
     rich_content          |-> None,
     epistemic_uncertainty |->
         Some([level       |-> cognitive_state.confidence_level,
               explanation |-> None]),
     ethical_reflection    |->
         IF cognitive_state.ethical_assessment.some
         THEN Some([pas_score_snapshot |-> None,
                    summary |-> <<"Ethical status: ">>,
                    details_query_suggestion |-> None])
         ELSE None,
     follow_up_suggestions |-> Some(<<"Ask another question.">>),
     diagnostic_info       |-> None]

\* map_cognitive_state_to_response(&self, cognitive_state, query)
MapCognitiveStateToResponse(cognitive_state, query) ==
    LET epistemic_uncertainty ==
            Some([level       |-> cognitive_state.confidence_level,
                  explanation |->
                      IF F64Lt(cognitive_state.confidence_level, F64Lit_0_7)
                      THEN Some("Confidence is moderate. More data or context could improve certainty.")
                      ELSE None])
        ethical_reflection ==
            IF cognitive_state.ethical_assessment.some
            THEN LET assessment == cognitive_state.ethical_assessment.val
                 IN  Some([pas_score_snapshot |-> Some(assessment.pas_score),
                           summary |->
                               <<"Ethical status: ", assessment.alignment_status,
                                 ". Concerns: ">>
                               \o Join(assessment.ethical_concerns, ", ")
                               \o <<".">>,
                           details_query_suggestion |->
                               Some("Ask 'Tell me more about the ethics of this response.'")])
            ELSE None
    IN  [session_id            |-> query.session_id,
         response_to_query_id  |-> query.query_id,
         response_id           |-> <<"response_to_", query.query_id>>,
         text_content          |-> cognitive_state.current_hypothesis,
         rich_content          |-> None,
         epistemic_uncertainty |-> epistemic_uncertainty,
         ethical_reflection    |-> ethical_reflection,
         follow_up_suggestions |-> Some(<<"Ask another question.">>),
         diagnostic_info       |->
             Some(("state_id" :> cognitive_state.state_id)
                  @@ ("history_log_entries" :>
                        ToDecimalString(Len(cognitive_state.history_log))))]

\* MockEngine::execute_full_cycle of the interface's tests: its
\* initialize_state_from_stimulus alone.
MockEngineExecuteFullCycle(stimulus) ==
    Ok([state_id                |-> <<"mock_state_01">>,
        stimulus_id             |-> stimulus.id,
        current_hypothesis      |-> <<"Mock hypothesis from mock engine.">>,
        confidence_level        |-> F64Lit_0_85,
        supporting_evidence_ids |-> <<>>,
        ethical_assessment      |->
            Some([pas_score             |-> F64Lit_0_95,
                  ethical_concerns      |-> <<"Mock concern">>,
                  suggested_mitigations |-> <<>>,
                  alignment_status      |-> "Aligned (Mock)"]),
        history_log             |-> << <<"Processed by MockEngine">> >>])

\* What another implementation of the trait may return from
\* execute_full_cycle: an error, or a state that was never assessed.
OtherEngineOutcomes(stimulus) ==
    { Err("engine failure"),
      Ok([state_id                |-> <<"state_for_stimulus_">> \o stimulus.id,
          stimulus_id             |-> stimulus.id,
          current_hypothesis      |-> <<"Unassessed hypothesis.">>,
          confidence_level        |-> F64Lit_0_7,
          supporting_evidence_ids |-> <<>>,
          ethical_assessment      |-> None,
          history_log             |-> <<>>]) }

\* The engines an interface is built with (the type parameter RCE).
Engines == {"BasicRecursiveCognitionEngine", "MockEngine", "Other"}

\* self.engine.execute_full_cycle(stimulus): the values it may return.
EngineOutcomes(engine, stimulus) ==
    CASE engine = "BasicRecursiveCognitionEngine" -> {ExecuteFullCycle(stimulus)}
      [] engine = "MockEngine" -> {MockEngineExecuteFullCycle(stimulus)}
      [] engine = "Other" -> OtherEngineOutcomes(stimulus)

\* The Stimulus handle_user_query builds from the query.
StimulusOfQuery(query) ==
    [id       |-> <<"stimulus_for_", query.query_id>>,
     content  |-> [kind |-> "Text", val |-> query.text],
     metadata |-> IF query.metadata.some THEN query.metadata.val ELSE <<>>]

\* handle_user_query(&self, query), given what execute_full_cycle returned
\* for StimulusOfQuery(query).
HandleUserQuery(query, outcome) ==
    IF outcome.ok THEN Ok(MapCognitiveStateToResponse(outcome.val, query))
    ELSE Err(<<"Error processing query via cognition engine: ", outcome.err>>)

UserQueries ==
    { [session_id |-> sid, query_id |-> qid, text |-> txt, metadata |-> md] :
      sid \in {"session123", "session456"},
      qid \in {"query001", "query002", ""},
      txt \in {"Hello OR4CL3", "Tell me a fact.", ""},
      md \in {None, Some("locale" :> "en")} }

\* ------------------------------------------------------------------ state

VARIABLES
    claim,      \* the HistoricalClaim the caller holds
    first,      \* what the first validate_historical_claim(&claim) returned
    last,       \* what the latest validate_historical_claim(&claim) returned
    graph,      \* the Neo4jMythosGraph
    added,      \* history: the claims passed to add_historical_claim so far
    firstAdd,   \* history: what the first add of each claim returned, and
                \* what the queries answered after it
    prevOp,     \* the gateway call before the latest one
    lastOp,     \* the latest gateway call, with what it returned
    shared,     \* the claims in memory shared by the threads
    calls,      \* per thread: the locals of its validate_historical_claim
                \* call, or the value it returned
    agents,     \* AstraeaCoordinator.agents
    meshPrev,   \* the coordinator call before the latest one
    meshOp,     \* the latest coordinator call, with the map before it and
                \* what it returned
    registered, \* history: the ids whose register_agent returned Ok
    lastTask,   \* history: per id, the description of the latest
                \* assign_task_to_agent that returned Ok
    cog,        \* the CognitiveState the engine's caller holds
    cycle,      \* the latest execute_full_cycle call, with what it returned
    reply       \* the latest handle_user_query call, with what the engine
                \* and the interface returned

scorerVars == <<claim, first, last>>

gatewayVars == <<graph, added, firstAdd, prevOp, lastOp>>

concurrentVars == <<shared, calls>>

astraeaVars == <<agents, meshPrev, meshOp, registered, lastTask>>

engineVars == <<cog, cycle>>

interfaceVars == <<reply>>

vars == <<scorerVars, gatewayVars, concurrentVars, astraeaVars, engineVars,
          interfaceVars>>

NoOp == [op |-> "none"]

\* The state before any call: the guard, the graph and a claim exist.
ScorerIdle ==
    /\ claim = MockKnownClaim
    /\ first = None
    /\ last = None

GatewayIdle ==
    /\ graph = NewGraph("neo4j://localhost:7687")
    /\ added = {}
    /\ firstAdd = [c \in GatewayClaims |-> None]
    /\ prevOp = NoOp
    /\ lastOp = NoOp

\* No thread is in a call.
ConcurrentIdle ==
    /\ shared = SharedClaims
    /\ calls = [t \in Threads |-> NotCalling]

\* let mut astraea = AstraeaCoordinator::new();
AstraeaIdle ==
    /\ agents = NoAgents
    /\ meshPrev = NoOp
    /\ meshOp = NoOp
    /\ registered = {}
    /\ lastTask = [id \in AgentIds |-> None]

\* let engine = BasicRecursiveCognitionEngine {};
EngineIdle ==
    /\ cog = None
    /\ cycle = NoOp

\* let interface = BasicConversationalInterface::new(engine);
InterfaceIdle == reply = NoOp

ScorerInit ==
    /\ claim \in HistoricalClaims
    /\ first = None
    /\ last = None
    /\ GatewayIdle /\ ConcurrentIdle /\ AstraeaIdle
    /\ EngineIdle /\ InterfaceIdle

GatewayInit ==
    /\ ScorerIdle /\ GatewayIdle /\ ConcurrentIdle /\ AstraeaIdle
    /\ EngineIdle /\ InterfaceIdle

ConcurrentInit ==
    /\ ScorerIdle /\ GatewayIdle /\ ConcurrentIdle /\ AstraeaIdle
    /\ EngineIdle /\ InterfaceIdle

AstraeaInit ==
    /\ ScorerIdle /\ GatewayIdle /\ ConcurrentIdle /\ AstraeaIdle
    /\ EngineIdle /\ InterfaceIdle

\* let result = guard.validate_historical_claim(&claim);
Validate ==
    \E order \in IterationOrders(score_breakdown_of[claim]) :
        LET result == ValidateHistoricalClaim(claim, order)
        IN  /\ last' = Some(result)
            /\ first' = IF first.some THEN first ELSE Some(result)
            /\ UNCHANGED <<claim, gatewayVars, concurrentVars, astraeaVars,
                       engineVars, interfaceVars>>

\* graph_db.add_historical_claim(&claim)
Add ==
    \E c \in GatewayClaims :
        LET result == AddHistoricalClaim(graph, c)
        IN  /\ graph' = graph
            /\ added' = added \cup {c}
            /\ firstAdd' = IF firstAdd[c].some THEN firstAdd
                           ELSE [firstAdd EXCEPT ![c] =
                                    Some([result |-> result,
                                          view |-> Observe(graph')])]
            /\ prevOp' = lastOp
            /\ lastOp' = [op |-> "add", claim |-> c, result |-> result,
                          again |-> c \in added, view |-> Observe(graph')]
            /\ UNCHANGED <<scorerVars, concurrentVars, astraeaVars,
                       engineVars, interfaceVars>>

\* graph_db.get_historical_claim_by_id(claim_id)
Get ==
    \E id \in QueryIds :
        /\ prevOp' = lastOp
        /\ lastOp' = [op |-> "get", claim_id |-> id,
                      result |-> GetHistoricalClaimById(graph, id)]
        /\ UNCHANGED <<graph, added, firstAdd, scorerVars, concurrentVars,
                       astraeaVars, engineVars, interfaceVars>>

\* graph_db.get_related_narratives(claim_id, relationship_type)
GetRelated ==
    \E id \in QueryIds, rel \in RelationshipTypes :
        /\ prevOp' = lastOp
        /\ lastOp' = [op |-> "related", claim_id |-> id, relationship_type |-> rel,
                      result |-> GetRelatedNarratives(graph, id, rel)]
        /\ UNCHANGED <<graph, added, firstAdd, scorerVars, concurrentVars,
                       astraeaVars, engineVars, interfaceVars>>

\* graph_db.get_narratives_by_context_tag(context_tag)
GetByContextTag ==
    \E tag \in ContextTags :
        /\ prevOp' = lastOp
        /\ lastOp' = [op |-> "by_tag", context_tag |-> tag,
                      result |-> GetNarrativesByContextTag(graph, tag)]
        /\ UNCHANGED <<graph, added, firstAdd, scorerVars, concurrentVars,
                       astraeaVars, engineVars, interfaceVars>>

\* Thread t calls guard.validate_historical_claim(&shared[k]) and runs up
\* to the loop.
Enter(t) ==
    /\ calls[t].pc = "idle"
    /\ \E k \in DOMAIN shared :
          \E order \in IterationOrders(ScoreBreakdown(shared[k])) :
              calls' = [calls EXCEPT ![t] = EnterValidate(k, order)]
    /\ UNCHANGED <<shared, scorerVars, gatewayVars, astraeaVars,
                       engineVars, interfaceVars>>

\* Thread t runs the loop body once.
Loop(t) ==
    /\ calls[t].pc = "summing"
    /\ calls[t].iter # <<>>
    /\ calls' = [calls EXCEPT ![t] = LoopBody(calls[t])]
    /\ UNCHANGED <<shared, scorerVars, gatewayVars, astraeaVars,
                       engineVars, interfaceVars>>

\* Thread t leaves the loop and returns.
Leave(t) ==
    /\ calls[t].pc = "summing"
    /\ calls[t].iter = <<>>
    /\ calls' = [calls EXCEPT ![t] = LeaveValidate(calls[t])]
    /\ UNCHANGED <<shared, scorerVars, gatewayVars, astraeaVars,
                       engineVars, interfaceVars>>

\* astraea.register_agent(agent_id, capabilities)
Register ==
    \E id \in AgentIds, caps \in CapabilityLists :
        LET r == RegisterAgent(agents, id, caps)
        IN  /\ agents' = r.agents
            /\ meshPrev' = meshOp
            /\ meshOp' = [op |-> "register", agent_id |-> id,
                          capabilities |-> caps, before |-> agents,
                          result |-> r.result]
            /\ registered' = IF r.result.ok THEN registered \cup {id}
                              ELSE registered
            /\ UNCHANGED lastTask
            /\ UNCHANGED <<scorerVars, gatewayVars, concurrentVars,
                       engineVars, interfaceVars>>

\* astraea.assign_task_to_agent(agent_id, task_description)
Assign ==
    \E id \in AgentIds, task \in TaskDescriptions :
        LET r == AssignTaskToAgent(agents, id, task)
        IN  /\ agents' = r.agents
            /\ meshPrev' = meshOp
            /\ meshOp' = [op |-> "assign", agent_id |-> id,
                          task_description |-> task, before |-> agents,
                          result |-> r.result]
            /\ lastTask' = IF r.result.ok
                            THEN [lastTask EXCEPT ![id] = Some(task)]
                            ELSE lastTask
            /\ UNCHANGED registered
            /\ UNCHANGED <<scorerVars, gatewayVars, concurrentVars,
                       engineVars, interfaceVars>>

\* astraea.get_agent_state(agent_id)
GetState ==
    \E id \in AgentIds :
        /\ meshPrev' = meshOp
        /\ meshOp' = [op |-> "get_state", agent_id |-> id, before |-> agents,
                      result |-> GetAgentState(agents, id)]
        /\ UNCHANGED <<agents, registered, lastTask, scorerVars, gatewayVars,
                       concurrentVars, engineVars, interfaceVars>>

\* astraea.broadcast_message_to_mesh(message)
Broadcast ==
    \E msg \in Messages :
        /\ meshPrev' = meshOp
        /\ meshOp' = [op |-> "broadcast", message |-> msg, before |-> agents,
                      result |-> BroadcastMessageToMesh(agents, msg)]
        /\ UNCHANGED <<agents, registered, lastTask, scorerVars, gatewayVars,
                       concurrentVars, engineVars, interfaceVars>>

\* The caller may go on with the state it holds.
CanStep == cog.some /\ Len(cog.val.history_log) < MaxHistory

CanPlainStep ==
    CanStep /\ PlainSteps(cog.val.history_log) < MaxPlainSteps

\* let state = engine.initialize_state_from_stimulus(stimulus).unwrap();
Initialize ==
    /\ ~cog.some
    /\ \E stimulus \in Stimuli :
          cog' = Some(InitializeStateFromStimulus(stimulus).val)
    /\ UNCHANGED <<cycle, scorerVars, gatewayVars, concurrentVars, astraeaVars,
                   interfaceVars>>

\* let state = engine.assess_ethics(&state).unwrap();
Assess ==
    /\ CanPlainStep
    /\ cog' = Some(AssessEthics(cog.val).val)
    /\ UNCHANGED <<cycle, scorerVars, gatewayVars, concurrentVars, astraeaVars,
                   interfaceVars>>

\* let state = engine.refine_cognition(&state).unwrap();
Refine ==
    /\ CanStep
    /\ cog' = Some(RefineCognition(cog.val).val)
    /\ UNCHANGED <<cycle, scorerVars, gatewayVars, concurrentVars, astraeaVars,
                   interfaceVars>>

\* let state = engine.validate_self(&state).unwrap();
SelfValidate ==
    /\ CanPlainStep
    /\ cog' = Some(ValidateSelf(cog.val).val)
    /\ UNCHANGED <<cycle, scorerVars, gatewayVars, concurrentVars, astraeaVars,
                   interfaceVars>>

\* let state = engine.incorporate_feedback(&state, feedback).unwrap();
Feedback ==
    /\ CanPlainStep
    /\ \E feedback \in Feedbacks :
          cog' = Some(IncorporateFeedback(cog.val, feedback).val)
    /\ UNCHANGED <<cycle, scorerVars, gatewayVars, concurrentVars, astraeaVars,
                   interfaceVars>>

\* let result = engine.execute_full_cycle(stimulus); the caller keeps the
\* state returned.
FullCycle ==
    /\ ~cog.some
    /\ \E stimulus \in Stimuli :
          LET result == ExecuteFullCycle(stimulus)
          IN  /\ cycle' = [op |-> "full_cycle", stimulus |-> stimulus,
                           result |-> result]
              /\ cog' = IF result.ok THEN Some(result.val) ELSE cog
    /\ UNCHANGED <<scorerVars, gatewayVars, concurrentVars, astraeaVars,
                   interfaceVars>>

\* let response_result = interface.handle_user_query(query);
HandleQuery ==
    \E query \in UserQueries, engine \in Engines :
        \E outcome \in EngineOutcomes(engine, StimulusOfQuery(query)) :
            /\ reply' = [op |-> "handle_user_query", query |-> query,
                         engine |-> engine, outcome |-> outcome,
                         result |-> HandleUserQuery(query, outcome)]
            /\ UNCHANGED <<scorerVars, gatewayVars, concurrentVars,
                           astraeaVars, engineVars>>

NextScorer == Validate

NextGateway == Add \/ Get \/ GetRelated \/ GetByContextTag

SpecScorer == ScorerInit /\ [][NextScorer]_vars

SpecGateway == GatewayInit /\ [][NextGateway]_vars

NextConcurrent == \E t \in Threads : Enter(t) \/ Loop(t) \/ Leave(t)

SpecConcurrent == ConcurrentInit /\ [][NextConcurrent]_vars

NextAstraea == Register \/ Assign \/ GetState \/ Broadcast

SpecAstraea == AstraeaInit /\ [][NextAstraea]_vars

EngineInit ==
    /\ ScorerIdle /\ GatewayIdle /\ ConcurrentIdle /\ AstraeaIdle
    /\ EngineIdle /\ InterfaceIdle

NextEngine ==
    Initialize \/ Assess \/ Refine \/ SelfValidate \/ Feedback \/ FullCycle

SpecEngine == EngineInit /\ [][NextEngine]_vars

InterfaceInit ==
    /\ ScorerIdle /\ GatewayIdle /\ ConcurrentIdle /\ AstraeaIdle
    /\ EngineIdle /\ InterfaceIdle

NextInterface == HandleQuery

SpecInterface == InterfaceInit /\ [][NextInterface]_vars

\* ----------------------------------------------------------- the claims

\* The ValidationScore of the latest call (when last.some).
Score == last.val.val

AddedIds == {c.claim_id : c \in added}

UsedTags ==
    UNION {{c.cultural_context_tags[i] : i \in DOMAIN c.cultural_context_tags} :
           c \in added}

\* x <= 1.0 and x <= 0.95 as real numbers, for an f32 x = m * 2^e; 1.0 is
\* 2^23 * 2^-23 and 0.95 is 19/20.  An f32 of the model has no sign, so
\* 0.0 <= x holds of every value.
AtMostOne(x) == x.m = 0 \/ x.e < -23 \/ (x.e = -23 /\ x.m = MantMin)

AtMost095(x) ==
    x.m = 0 \/ x.e < -24 \/ (x.e = -24 /\ 20 * x.m <= 19 * MantMax)

\* C1: every ValidationScore returned has overall_score in [0.0, 1.0] and
\* confidence in [0.0, 0.95].
C1_ScoreAndConfidenceInRange ==
    last.some =>
        /\ last.val.ok
        /\ Score.overall_score.m >= 0 /\ AtMostOne(Score.overall_score)
        /\ Score.confidence.m >= 0 /\ AtMost095(Score.confidence)

\* C1 witness: a signed claim with a narrative of 150 bytes or more and a
\* keyword has been scored.
C1_Witness ==
    /\ last.some
    /\ claim.provenance.cryptographic_signature.some
    /\ StrLen(claim.narrative_content) >= 150
    /\ Contains(claim.narrative_content, KwRights)

\* C2: two calls on the same claim return identical ValidationScore values,
\* whatever order the summing loop visits the four entries in.
C2_Deterministic == (first.some /\ last.some) => last = first

\* C3: add_historical_claim(c) followed immediately by
\* get_historical_claim_by_id(c.claim_id) returns Ok(Some(c)).
C3_RoundTrip ==
    (/\ prevOp.op = "add"
     /\ lastOp.op = "get"
     /\ lastOp.claim_id = prevOp.claim.claim_id)
    => lastOp.result = Ok(Some(prevOp.claim))

\* C4 as stated: get_historical_claim_by_id(id) for an id that no earlier
\* add has stored returns Ok(None).
C4_AbsentIsNone ==
    (lastOp.op = "get" /\ lastOp.claim_id \notin AddedIds)
    => lastOp.result = Ok(None)

\* C4 as amended: get_historical_claim_by_id(id) never returns an error; for
\* an id that no earlier add has stored it returns Ok(None), except for the
\* built-in id "known_claim_001", for which it returns Ok(Some(claim)) with
\* that claim_id.
C4_AbsentIsNoneUnlessBuiltIn ==
    lastOp.op = "get" =>
        /\ lastOp.result.ok
        /\ (lastOp.claim_id \notin AddedIds) =>
              IF lastOp.claim_id = "known_claim_001"
              THEN /\ lastOp.result.val.some
                   /\ lastOp.result.val.val.claim_id = "known_claim_001"
              ELSE lastOp.result = Ok(None)

\* C4 witness: after some add, a get for an id never added that is not the
\* built-in one.
C4_Witness ==
    /\ added # {}
    /\ lastOp.op = "get"
    /\ lastOp.claim_id \notin AddedIds
    /\ lastOp.claim_id # "known_claim_001"

\* C5: get_related_narratives for an unknown claim id or a relationship type
\* with no edges (no operation creates an edge, so every type), and
\* get_narratives_by_context_tag for an unused tag, return Ok with an empty
\* sequence.
C5_EmptyNotError ==
    /\ lastOp.op = "related" => lastOp.result = Ok(<<>>)
    /\ (lastOp.op = "by_tag" /\ lastOp.context_tag \notin UsedTags)
       => lastOp.result = Ok(<<>>)

\* C5 witness: after some add, get_related_narratives on an unknown id and
\* then get_narratives_by_context_tag on an unused tag.
C5_Witness ==
    /\ added # {}
    /\ prevOp.op = "related" /\ prevOp.claim_id \notin AddedIds
    /\ lastOp.op = "by_tag" /\ lastOp.context_tag \notin UsedTags

\* C6: add_historical_claim returns Ok with the claim's own claim_id; adding
\* a claim again returns what the first add returned and leaves what every
\* query answers as it was after the first add.
C6_IdempotentUpsert ==
    lastOp.op = "add" =>
        /\ lastOp.result = Ok(lastOp.claim.claim_id)
        /\ lastOp.again =>
              /\ lastOp.result = firstAdd[lastOp.claim].val.result
              /\ lastOp.view = firstAdd[lastOp.claim].val.view
              /\ Observe(graph) = firstAdd[lastOp.claim].val.view

\* C6 witness: a claim added for the second time, with a query in between.
C6_Witness ==
    /\ lastOp.op = "add" /\ lastOp.again
    /\ prevOp.op = "get"

\* C7: score_breakdown has exactly four entries, under the four fixed keys.
C7_FourFixedKeys ==
    last.some =>
        /\ Cardinality(DOMAIN Score.score_breakdown) = 4
        /\ DOMAIN Score.score_breakdown =
              {"cryptographic_signature_valid", "historical_consistency_score",
               "expert_consensus_score", "narrative_coherence_score"}

\* C7 witness: a claim with an empty claim_id and an empty narrative scored.
C7_Witness ==
    /\ last.some
    /\ claim.claim_id = ""
    /\ claim.narrative_content = <<>>

\* C8 as stated: the signature sub-score is 0.95 exactly when the signature
\* is present with a non-empty value, and 0.05 otherwise.
C8_NonEmptySignature ==
    last.some =>
        Score.score_breakdown["cryptographic_signature_valid"] =
            IF /\ claim.provenance.cryptographic_signature.some
               /\ claim.provenance.cryptographic_signature.val # ""
            THEN F32DivInt(19, 20) ELSE F32DivInt(1, 20)

\* C8 as amended: the signature sub-score is 0.95 exactly when the signature
\* is present (Some), the empty string included, and 0.05 when it is absent
\* (None).
C8_SignaturePresent ==
    last.some =>
        Score.score_breakdown["cryptographic_signature_valid"] =
            IF claim.provenance.cryptographic_signature.some
            THEN F32DivInt(19, 20) ELSE F32DivInt(1, 20)

\* C8 witness: a claim whose signature is the empty string has been scored.
C8_Witness ==
    /\ last.some
    /\ claim.provenance.cryptographic_signature = Some("")

\* C9: the consistency sub-score is decided by the number of characters L of
\* narrative_content: 0.5 when L < 50, 0.6 when 50 <= L < 150, 0.7 when
\* L >= 150, also for text with characters of more than one byte.
C9_ByCharacterLength ==
    last.some =>
        LET L == Len(claim.narrative_content)
        IN  Score.score_breakdown["historical_consistency_score"] =
                IF L < 50 THEN F32DivInt(1, 2)
                ELSE IF L < 150 THEN F32DivInt(3, 5)
                ELSE F32DivInt(7, 10)

\* Two f32 of the same binade at most one unit in the last place apart.
WithinOneUlp(x, y) == x.e = y.e /\ x.m - y.m \in {-1, 0, 1}

\* C10: the expert sub-score is 0.4 + (h mod 4)/10 in f32 arithmetic, h the
\* hash of claim_id, which is within one unit in the last place of 0.4, 0.5,
\* 0.6 or 0.7; every claim with the same claim_id gets the same sub-score.
C10_ExpertFromClaimId ==
    last.some =>
        LET k == DefaultHasherFinish(claim.claim_id)[4] % 4
            x == Score.score_breakdown["expert_consensus_score"]
        IN  /\ x = F32Add(F32DivInt(2, 5), F32DivInt(k, 10))
            /\ WithinOneUlp(x, F32DivInt(4 + k, 10))
            /\ \A c \in HistoricalClaims :
                  c.claim_id = claim.claim_id =>
                      score_breakdown_of[c]["expert_consensus_score"] = x

\* C10 witness: a claim whose hash is 3 mod 4 has been scored, where
\* 0.4 + 0.3 is not the f32 nearest to 0.7.
C10_Witness ==
    /\ last.some
    /\ U64Mod4(DefaultHasherFinish(claim.claim_id)) = 3
    /\ Score.score_breakdown["expert_consensus_score"] # F32DivInt(7, 10)

\* The orders in which the four keys can be visited.
KeyOrders == IterationOrders(ScoreBreakdown(MockKnownClaim))

\* The number of the three keywords that occur in text s.
KeywordCount(s) ==
    (IF Contains(s, KwPolicy) THEN 1 ELSE 0)
    + (IF Contains(s, KwRights) THEN 1 ELSE 0)
    + (IF Contains(s, KwHistorical) THEN 1 ELSE 0)

\* 0.6 with 0.05 added k times, in f32.
RECURSIVE BasePlusBonus(_)
BasePlusBonus(k) ==
    IF k = 0 THEN F32DivInt(3, 5) ELSE F32Add(BasePlusBonus(k - 1), F32DivInt(1, 20))

\* C11: the coherence sub-score is min(0.75, 0.60 + 0.05 * k) in f32
\* arithmetic, which is within one unit in the last place of 0.60, 0.65, 0.70
\* or 0.75, where k is the number of the keywords policy, rights, historical
\* that occur in the narrative compared without regard to case; a keyword
\* that occurs more than once counts once.
C11_CoherenceFromKeywords ==
    last.some =>
        LET k == KeywordCount(ToLowercase(claim.narrative_content))
            x == Score.score_breakdown["narrative_coherence_score"]
        IN  /\ x = F32Min(F32DivInt(3, 4), BasePlusBonus(k))
            /\ WithinOneUlp(x, F32DivInt(60 + 5 * k, 100))

\* C11 witness: a narrative with one keyword capitalised and another in
\* lower case ("Policy rights") has been scored.
C11_Witness ==
    /\ last.some
    /\ claim.narrative_content = CapPolicy \o Sp \o KwRights
    /\ ~Contains(claim.narrative_content, KwPolicy)

\* The position of a positive f32 among the f32 values in increasing order
\* (its bit pattern).
F32Bits(x) == IF x.m = 0 THEN 0 ELSE (x.e + 150) * MantMin + (x.m - MantMin)

\* x and y at most n units in the last place apart.
WithinUlps(x, y, n) ==
    F32Bits(x) - F32Bits(y) <= n /\ F32Bits(y) - F32Bits(x) <= n

\* Each sub-score of b times the weight of its own key.
OwnWeightProducts(b) ==
    [key \in DOMAIN b |->
        F32Mul(b[key],
               CASE key = "cryptographic_signature_valid" -> F32DivInt(3, 10)
                 [] key = "historical_consistency_score"  -> F32DivInt(1, 4)
                 [] key = "expert_consensus_score"        -> F32DivInt(1, 4)
                 [] key = "narrative_coherence_score"     -> F32DivInt(1, 5))]

\* The four products p added to 0.0 in the order given.
SumInOrder(p, order) ==
    F32Add(F32Add(F32Add(F32Add(F32Zero, p[order[1]]), p[order[2]]),
                  p[order[3]]), p[order[4]])

ListedOrder ==
    <<"cryptographic_signature_valid", "historical_consistency_score",
      "expert_consensus_score", "narrative_coherence_score">>

\* C12: overall_score is the f32 sum of 0.30*signature, 0.25*consistency,
\* 0.25*expert_consensus and 0.20*coherence of the sub-scores stored in
\* score_breakdown, added in one of the orders of the four entries, and is
\* within two units in the last place of the sum taken in the order listed;
\* the four weights add up to 1.0.
C12_WeightedSum ==
    last.some =>
        LET p == OwnWeightProducts(Score.score_breakdown)
        IN  /\ \E order \in KeyOrders :
                  Score.overall_score = SumInOrder(p, order)
            /\ WithinUlps(Score.overall_score, SumInOrder(p, ListedOrder), 2)
            /\ F32Add(F32Add(F32Add(F32DivInt(3, 10), F32DivInt(1, 4)),
                             F32DivInt(1, 4)), F32DivInt(1, 5)) = F32DivInt(1, 1)

\* C12 witness: a claim whose four sub-scores are all different has been
\* scored, and the result is not the sum taken in the order listed.
C12_Witness ==
    /\ last.some
    /\ Cardinality({Score.score_breakdown[key] : key \in DOMAIN Score.score_breakdown}) = 4
    /\ Score.overall_score
          # SumInOrder(OwnWeightProducts(Score.score_breakdown), ListedOrder)

\* The combinations of four sub-scores that the claims of the model have.
SubScoreCombinations == {score_breakdown_of[c] : c \in HistoricalClaims}

\* C13: the clamp to [0.0, 1.0] never changes the weighted sum: in whatever
\* order the entries are added, the unclamped sum is in [0.0, 1.0], and the
\* overall_score returned is one of the unclamped sums.
C13_ClampNeverTriggered ==
    last.some =>
        LET sums == { WeightedSum(F32Zero, Score.score_breakdown, order, 1) :
                      order \in KeyOrders }
        IN  /\ \A x \in sums : x.m >= 0 /\ AtMostOne(x)
            /\ Score.overall_score \in sums

\* C13 witness: the claim with the highest sub-scores (signed, 150 bytes or
\* more, hash 3 mod 4, all three keywords) has been scored, and the claims
\* of the model have all 2 * 3 * 4 * 4 combinations of sub-scores.
C13_Witness ==
    /\ last.some
    /\ Cardinality(SubScoreCombinations) = 2 * 3 * 4 * 4
    /\ Score.score_breakdown["cryptographic_signature_valid"] = F32DivInt(19, 20)
    /\ Score.score_breakdown["historical_consistency_score"]
          = F32Add(F32DivInt(1, 2), F32DivInt(1, 5))
    /\ U64Mod4(DefaultHasherFinish(claim.claim_id)) = 3
    /\ Score.score_breakdown["narrative_coherence_score"] = F32DivInt(3, 4)

\* The overall_score values the scorer returns over all claims and orders.
OverallScores ==
    { ClampUnit(WeightedSum(F32Zero, b, order, 1)) :
      b \in SubScoreCombinations,
      order \in KeyOrders }

\* C14: confidence is min(0.60 + 0.25 * overall_score, 0.95) in f32
\* arithmetic, is at most 0.95, and a higher overall_score never has a lower
\* confidence.
C14_ConfidenceFormula ==
    last.some =>
        /\ Score.confidence =
              F32Min(F32Add(F32DivInt(3, 5),
                            F32Mul(Score.overall_score, F32DivInt(1, 4))),
                     F32DivInt(19, 20))
        /\ AtMost095(Score.confidence)
        /\ \A x \in OverallScores :
              F32Lt(Score.overall_score, x) =>
                  ~F32Lt(Confidence(x), Score.confidence)

\* C14 witness: two calls have returned different overall_score values, the
\* later one the higher.
C14_Witness ==
    /\ first.some /\ last.some
    /\ F32Lt(first.val.val.overall_score, Score.overall_score)

\* The claims that differ from c in that one is signed and the other is not.
SignatureTwins(c) ==
    { [c EXCEPT !.provenance.cryptographic_signature = sig] :
      sig \in {s \in Signatures :
                 s.some # c.provenance.cryptographic_signature.some} }

\* C15: of two claims that differ only in that one is signed and the other
\* is not, the signed one has signature sub-score 0.95 and the unsigned one
\* 0.05, the other three sub-scores are equal, and the signed claim's
\* overall_score is not lower, whatever order each sum is taken in.
C15_SignatureMonotone ==
    last.some =>
        \A twin \in SignatureTwins(claim) :
            LET isSigned == claim.provenance.cryptographic_signature.some
                mine  == Score.score_breakdown
                other == score_breakdown_of[twin]
                others == { ClampUnit(WeightedSum(F32Zero, other, order, 1)) :
                            order \in KeyOrders }
            IN  /\ mine["cryptographic_signature_valid"] =
                      IF isSigned THEN F32DivInt(19, 20) ELSE F32DivInt(1, 20)
                /\ other["cryptographic_signature_valid"] =
                      IF isSigned THEN F32DivInt(1, 20) ELSE F32DivInt(19, 20)
                /\ \A key \in {"historical_consistency_score",
                               "expert_consensus_score",
                               "narrative_coherence_score"} :
                      mine[key] = other[key]
                /\ \A y \in others :
                      IF isSigned THEN ~F32Lt(Score.overall_score, y)
                      ELSE ~F32Lt(y, Score.overall_score)

\* C15 witness: an unsigned claim has been scored, and it has a signed twin.
C15_Witness ==
    /\ last.some
    /\ ~claim.provenance.cryptographic_signature.some
    /\ SignatureTwins(claim) # {}

\* C16: validate_historical_claim returns Ok, never Err, on every claim the
\* caller may hold, in whatever order its loop runs, and every call made
\* has returned Ok.
C16_Total ==
    /\ \A order \in KeyOrders :
          ValidateHistoricalClaim(claim, order).ok
    /\ last.some => last.val.ok

\* C16 witness: a claim with an empty claim_id, an empty narrative, no tags
\* and no signature has been scored.
C16_Witness ==
    /\ last.some
    /\ claim.claim_id = ""
    /\ claim.narrative_content = <<>>
    /\ claim.cultural_context_tags = <<>>
    /\ claim.provenance.cryptographic_signature = None

\* C17: validation_notes has exactly one entry, which records the claim_id
\* of the claim validated.
C17_OneNoteWithClaimId ==
    last.some =>
        /\ Len(Score.validation_notes) = 1
        /\ Score.validation_notes[1] =
              <<"Validated claim (refined mock): ", claim.claim_id>>

\* C17 witness: a claim whose claim_id differs from its document_id has been
\* scored.
C17_Witness ==
    /\ first.some /\ last.some
    /\ claim.claim_id = "test_claim_003"
    /\ claim.provenance.document_id # claim.claim_id

\* C18: calls that run concurrently on one guard and on shared claims leave
\* the shared claims as they were, and each returns the one ValidationScore
\* that a call on its claim returns when run alone: any two finished calls
\* on the same claim have returned equal values.
C18_ConcurrentSameAsAlone ==
    /\ shared = SharedClaims
    /\ \A t, u \in Threads :
          (/\ calls[t].pc = "done"
           /\ calls[u].pc = "done"
           /\ calls[t].claim = calls[u].claim)
          => calls[t].result = calls[u].result

\* The AgentState of a newly registered agent.
NewAgentState(op) ==
    [agent_id     |-> op.agent_id,
     status       |-> "idle",
     current_task |-> None,
     capabilities |-> op.capabilities]

\* The call op registered an id that was not registered before it.
RegisteredNew(op) == op.op = "register" /\ op.agent_id \notin DOMAIN op.before

\* C19: register_agent(id, caps) on an id not yet registered returns Ok, and
\* get_agent_state(id) then returns the state with agent_id = id,
\* capabilities = caps, status "idle" and no current_task.
C19_RegisterThenGet ==
    /\ RegisteredNew(meshOp) =>
          /\ meshOp.result = Ok(<<>>)
          /\ agents[meshOp.agent_id] = NewAgentState(meshOp)
    /\ (/\ RegisteredNew(meshPrev)
        /\ meshOp.op = "get_state"
        /\ meshOp.agent_id = meshPrev.agent_id)
       => meshOp.result = Ok(NewAgentState(meshPrev))

\* C19 witness: while another agent is processing a task, an id is
\* registered with two capabilities and its state is then read.
C19_Witness ==
    /\ RegisteredNew(meshPrev)
    /\ Len(meshPrev.capabilities) = 2
    /\ \E id \in DOMAIN meshPrev.before :
          meshPrev.before[id].status = "processing"
    /\ meshOp.op = "get_state"
    /\ meshOp.agent_id = meshPrev.agent_id

\* C20: register_agent on a registered id and assign_task_to_agent on an
\* unregistered id return Err and leave the agent map as it was before the
\* call, so the registered agent keeps its status, current_task and
\* capabilities.
C20_FailureChangesNothing ==
    /\ (meshOp.op = "register" /\ meshOp.agent_id \in DOMAIN meshOp.before)
       => /\ ~meshOp.result.ok
          /\ agents = meshOp.before
          /\ agents[meshOp.agent_id].status = meshOp.before[meshOp.agent_id].status
          /\ agents[meshOp.agent_id].current_task
                = meshOp.before[meshOp.agent_id].current_task
          /\ agents[meshOp.agent_id].capabilities
                = meshOp.before[meshOp.agent_id].capabilities
    /\ (meshOp.op = "assign" /\ meshOp.agent_id \notin DOMAIN meshOp.before)
       => /\ ~meshOp.result.ok
          /\ agents = meshOp.before

\* C20 witness: a task assigned to an unregistered id, then an agent that is
\* processing a task registered again with other capabilities.
C20_Witness ==
    /\ meshPrev.op = "assign"
    /\ meshPrev.agent_id \notin DOMAIN meshPrev.before
    /\ meshOp.op = "register"
    /\ meshOp.agent_id \in DOMAIN meshOp.before
    /\ meshOp.before[meshOp.agent_id].status = "processing"
    /\ meshOp.capabilities # meshOp.before[meshOp.agent_id].capabilities

\* C21: an agent that has received a successful assign_task_to_agent is
\* registered, has status "processing", and has as current_task the
\* description of the latest successful assignment to it.
C21_LatestAssignmentKept ==
    \A id \in AgentIds :
        lastTask[id].some =>
            /\ id \in DOMAIN agents
            /\ agents[id].status = "processing"
            /\ agents[id].current_task = Some(lastTask[id].val)

\* C21 witness: an agent has been assigned a task and then another task.
C21_Witness ==
    /\ meshPrev.op = "assign" /\ meshPrev.result.ok
    /\ meshOp.op = "assign" /\ meshOp.result.ok
    /\ meshOp.agent_id = meshPrev.agent_id
    /\ meshOp.task_description # meshPrev.task_description

\* C22: get_agent_state(id) returns Ok exactly when an earlier
\* register_agent(id, _) returned Ok, and Err otherwise; an agent once
\* registered stays in the map.
C22_KnownIffRegistered ==
    /\ \A id \in AgentIds :
          /\ GetAgentState(agents, id).ok <=> id \in registered
          /\ id \in registered => id \in DOMAIN agents
    /\ meshOp.op = "get_state" =>
          (meshOp.result.ok <=> meshOp.agent_id \in registered)

\* C22 witness: get_agent_state answered Ok for an agent that is processing
\* a task, and then Err for an id that was never registered.
C22_Witness ==
    /\ meshPrev.op = "get_state" /\ meshPrev.result.ok
    /\ meshPrev.result.val.status = "processing"
    /\ meshOp.op = "get_state" /\ ~meshOp.result.ok
    /\ meshOp.agent_id \notin registered

\* The entries the four stages of a full cycle push, in stage order.
StageEntries ==
    << <<"State initialized from stimulus">>,
       <<"Ethical assessment performed (mock)">>,
       <<"Cognition refined (mock)">>,
       <<"Self-validation performed (mock)">> >>

\* C23: execute_full_cycle returns Ok with the state that
\* initialize_state_from_stimulus, assess_ethics, refine_cognition and
\* validate_self give when run in that order: it has an ethical assessment
\* with alignment_status "Aligned (Mock)", a confidence_level above 0.5, and
\* a history_log of at least four entries that starts with one entry per
\* stage, in stage order.
C23_FullCycleStages ==
    cycle.op = "full_cycle" =>
        /\ cycle.result.ok
        /\ LET state == cycle.result.val
               s0 == InitializeStateFromStimulus(cycle.stimulus).val
               s1 == AssessEthics(s0).val
               s2 == RefineCognition(s1).val
           IN  /\ state = ValidateSelf(s2).val
               /\ state.ethical_assessment.some
               /\ state.ethical_assessment.val.alignment_status = "Aligned (Mock)"
               /\ F64Lt(F64DivInt(1, 2), state.confidence_level)
               /\ Len(state.history_log) >= 4
               /\ SubSeq(state.history_log, 1, 4) = StageEntries

\* C23 witness: a full cycle has run on the test stimulus, and the caller
\* has refined the state it returned once more.
C23_Witness ==
    /\ cycle.op = "full_cycle"
    /\ cycle.stimulus.id = <<"test_stimulus_01">>
    /\ cog.some
    /\ Len(cog.val.history_log) = 5

\* C24: when execute_full_cycle returned Ok, handle_user_query returns Ok
\* with the query's session_id and query_id, the state's current_hypothesis
\* as text_content, its confidence_level as epistemic_uncertainty.level, and
\* an ethical_reflection exactly when the state has an ethical assessment,
\* carrying its pas_score; when the engine returned Err, handle_user_query
\* returns Err.
C24_ResponseFromState ==
    reply.op = "handle_user_query" =>
        IF reply.outcome.ok
        THEN /\ reply.result.ok
             /\ LET response == reply.result.val
                    state    == reply.outcome.val
                IN  /\ response.session_id = reply.query.session_id
                    /\ response.response_to_query_id = reply.query.query_id
                    /\ response.text_content = state.current_hypothesis
                    /\ response.epistemic_uncertainty.some
                    /\ response.epistemic_uncertainty.val.level
                          = state.confidence_level
                    /\ response.ethical_reflection.some
                          <=> state.ethical_assessment.some
                    /\ response.ethical_reflection.some =>
                          response.ethical_reflection.val.pas_score_snapshot
                             = Some(state.ethical_assessment.val.pas_score)
        ELSE ~reply.result.ok

\* C24 witness: the query of the test with the basic engine has been
\* answered, with an ethical reflection.
C24_Witness ==
    /\ reply.op = "handle_user_query"
    /\ reply.engine = "BasicRecursiveCognitionEngine"
    /\ reply.query.session_id = "session456"
    /\ reply.query.query_id = "query002"
    /\ reply.result.ok
    /\ reply.result.val.ethical_reflection.some
    /\ reply.result.val.text_content =
          <<"Initial hypothesis for stimulus: ", "stimulus_for_", "query002",
            " (refined)">>

\* C25: the confidence_level of every cognitive state reached from
\* initialize_state_from_stimulus by assess_ethics, refine_cognition,
\* validate_self and incorporate_feedback lies in [0.0, 1.0] (a level is
\* positive in the model, so: is not above 1.0).
C25_ConfidenceInUnitRange ==
    cog.some => ~F64Lt(F64DivInt(1, 1), cog.val.confidence_level)

\* Claims c and d agree on the presence of a signature, on narrative_content
\* and on claim_id.
AgreeOnScoredFields(c, d) ==
    /\ c.provenance.cryptographic_signature.some
          = d.provenance.cryptographic_signature.some
    /\ c.narrative_content = d.narrative_content
    /\ c.claim_id = d.claim_id

\* C26: two claims that agree on signature presence, narrative_content and
\* claim_id but differ in another field get the same overall_score,
\* confidence and score_breakdown.
C26_DependsOnlyOnScoredFields ==
    \A t, u \in Threads :
        (/\ calls[t].pc = "done"
         /\ calls[u].pc = "done"
         /\ shared[calls[t].claim] # shared[calls[u].claim]
         /\ AgreeOnScoredFields(shared[calls[t].claim], shared[calls[u].claim]))
        => LET a == calls[t].result.val
               b == calls[u].result.val
           IN  /\ a.overall_score = b.overall_score
               /\ a.confidence = b.confidence
               /\ a.score_breakdown = b.score_breakdown
====
